---- MODULE Spec2Model ----
(***************************************************************************)
(* Model of adapters/v1/backend.go: BackendAdapter.SubmitCVE (the chunked  *)
(* report delivery pipeline), BackendAdapter.GetCVEExceptions and          *)
(* BackendAdapter.SendStatus.                                              *)
(*                                                                         *)
(* Under Spec one behaviour is one call of SubmitCVE on one input (context *)
(* values, scan command, the two CVE manifests, the answers of the policy  *)
(* store and of the report sink).  Under StatusSpec one behaviour is a     *)
(* series of calls of SendStatus.  Goroutines are separate actions.        *)
(***************************************************************************)
EXTENDS Integers, Sequences, FiniteSets, TLC

(***************************************************************************)
(* Program constants                                                       *)
(***************************************************************************)
\* const maxBodySize int = 30000
maxBodySize == 30000
\* errChan := make(chan error, 10)
ErrChanCap == 10
\* httputils.SplitSlice2Chunks(vulnerabilities, maxBodySize, 10)
ChunksBuffer == 10

(***************************************************************************)
(* Bounds of the model                                                     *)
(***************************************************************************)
\* longest vulnerability list of the enumerated small inputs
MaxRecords == 3
\* number of distinct vulnerability names of the small inputs
NumNames == 4
\* highest part number the enumerated sink behaviours answer with an error
MaxParts == 4
MaxCalls == 3
\* number of records of the one large input (each its own chunk)
NumBig == 11
\* serialized sizes of records: two small ones fit one chunk, three do not
SmallSize == 12000
\* a record that fills a chunk alone and does not fit beside the summary
NearSize == 29800
\* a record that alone exceeds the byte budget
HugeSize == 31000
\* size of the records of the large input
MidSize == 20000
\* serialized size of the report that carries the summary
SummarySize == 500

(***************************************************************************)
(* Generic helpers                                                         *)
(***************************************************************************)
EmptyMap == [k \in {} |-> ""]

SeqMax(S) == CHOOSE x \in S : \A y \in S : y <= x

\* m with key k set to v (Go: m[k] = v)
MapSet(m, k, v) == [x \in (DOMAIN m) \cup {k} |-> IF x = k THEN v ELSE m[x]]

\* sequences of pairwise distinct elements of S, of length at most n
DistinctSeqs(S, n) ==
    {s \in UNION {[1..k -> S] : k \in 0..n} :
        \A i, j \in DOMAIN s : i # j => s[i] # s[j]}

\* strictly increasing sequences over 1..m (one per subset)
IncreasingSeqs(m) ==
    {s \in UNION {[1..k -> 1..m] : k \in 0..m} :
        \A i, j \in DOMAIN s : i < j => s[i] < s[j]}

RECURSIVE SumSizes(_)
SumSizes(s) == IF s = <<>> THEN 0 ELSE s[1].Size + SumSizes(Tail(s))

\* json size of a list of records: brackets, the records, the commas
JSONSize(s) == 2 + SumSizes(s) + (IF Len(s) > 0 THEN Len(s) - 1 ELSE 0)

(***************************************************************************)
(* Inputs                                                                  *)
(***************************************************************************)
SizeOfName(n) == IF n <= 2 THEN SmallSize ELSE IF n = 3 THEN NearSize ELSE HugeSize

\* a domain vulnerability set as a list of (name, size) matches
DomainList(names) == [i \in DOMAIN names |-> [Name |-> names[i], Size |-> SizeOfName(names[i])]]

ValidWlid == <<"cluster1", "ns1", "Deployment", "web">>
WlidNoName == <<"cluster1", "ns1", "Deployment">>
WlidEmpty == <<>>

ArgKeys == {"registryName", "repository", "tag", "sensor"}
ArgsOf(keys) == [k \in keys |-> "arg"]

AllOk == <<>>

BaseInput ==
    [hasTimestamp |-> TRUE, hasScanID |-> TRUE, hasWorkload |-> TRUE,
     scanIDValid |-> TRUE, excErr |-> FALSE, exceptions |-> {},
     cveNil |-> FALSE, cve |-> DomainList(<<1>>), cveConvErr |-> FALSE,
     cvepNil |-> TRUE, cvep |-> <<>>, cvepConvErr |-> FALSE,
     wlid |-> ValidWlid, containerName |-> "nginx", args |-> ArgsOf({}),
     sink |-> AllOk]

\* every combination of what the context and the collaborators may lack
ValidationInputs ==
    {[BaseInput EXCEPT !.hasTimestamp = f[1], !.hasScanID = f[2], !.hasWorkload = f[3],
                       !.scanIDValid = f[4], !.excErr = f[5], !.cveNil = f[6],
                       !.cveConvErr = f[7],
                       !.exceptions = IF f[8] THEN {1} ELSE {}] : f \in [1..8 -> BOOLEAN]}
    \cup {[BaseInput EXCEPT !.cvepNil = FALSE, !.cvep = DomainList(<<1>>),
                            !.cvepConvErr = TRUE]}

\* every short full set against every relevant set
MergeInputs ==
    {[BaseInput EXCEPT !.cve = DomainList(l), !.cvepNil = r[1],
                       !.cvep = DomainList(r[2])] :
        l \in DistinctSeqs(1..MaxRecords, MaxRecords),
        r \in ({TRUE} \X {<<>>}) \cup ({FALSE} \X IncreasingSeqs(NumNames))}

\* every workload identifier against every combination of Args
DesignatorInputs ==
    {[BaseInput EXCEPT !.cve = DomainList(<<1, 3>>), !.wlid = w, !.args = ArgsOf(k)] :
        w \in {ValidWlid, WlidNoName, WlidEmpty}, k \in SUBSET ArgKeys}

\* what the sink answers to each part: every mix of success and transport
\* errors, and two mixes of different errors
SinkBehaviours ==
    [1..MaxParts -> {"ok", "transport"}]
        \cup {[p \in 1..MaxParts |-> IF p % 2 = 1 THEN "status500" ELSE "transport"],
              [p \in 1..MaxParts |->
                  IF p % 3 = 1 THEN "ok" ELSE IF p % 3 = 2 THEN "status500" ELSE "transport"]}

\* short lists of every chunk shape against every behaviour of the sink
DeliveryInputs ==
    {[BaseInput EXCEPT !.cve = DomainList(l), !.sink = s] :
        l \in DistinctSeqs({1, 3, 4}, MaxRecords) \cup {<<1, 2>>, <<1, 2, 3>>, <<1, 2, 4>>},
        s \in SinkBehaviours}

\* one list of NumBig records, one chunk each, every send failing
BigInput ==
    [BaseInput EXCEPT !.cve = [i \in 1..NumBig |-> [Name |-> i, Size |-> MidSize]],
                      !.sink = [i \in 1..(NumBig + 1) |-> "transport"]]

Inputs == ValidationInputs \cup MergeInputs \cup DesignatorInputs \cup DeliveryInputs
              \cup {BigInput}

(***************************************************************************)
(* State                                                                   *)
(***************************************************************************)
VARIABLES
    in,                  \* the input of this call (never changes)
    pc,                  \* position of the caller in SubmitCVE
    ret,                 \* what SubmitCVE returned ("pending" until it returns)
    err,                 \* the variable err: its errors, and whether it is a multierror
    exceptions,          \* result of GetCVEExceptions
    vulnerabilities,     \* the converted, merged vulnerability list
    heap,                \* the bool cells the IsRelevant pointers point to
    objects,             \* the attribute map and the context, by address
    hasRelevancy,
    finalReport,
    armoContext,
    chunksChan,          \* [buf, closed, next]: the partitioner's channel and position
    totalVulnerabilities,
    firstVulnerabilitiesChunk,
    nextPartNum,
    sendWG,              \* counter of the wait group
    errChan,             \* [buf, closed]
    posts,               \* the post goroutines, in dispatch order
    routine,             \* the goroutine that closes errChan
    sinkLog,             \* number of requests the sink received, per part number
    crashed,             \* a goroutine panicked
    status               \* the calls of SendStatus: the running one and the past ones

vars == <<in, pc, ret, err, exceptions, vulnerabilities, heap, objects, hasRelevancy,
          finalReport, armoContext, chunksChan, totalVulnerabilities,
          firstVulnerabilitiesChunk, nextPartNum, sendWG, errChan, posts, routine,
          sinkLog, crashed, status>>

\* the variables of SubmitCVE
submitVars == <<in, pc, ret, err, exceptions, vulnerabilities, heap, objects, hasRelevancy,
                finalReport, armoContext, chunksChan, totalVulnerabilities,
                firstVulnerabilitiesChunk, nextPartNum, sendWG, errChan, posts, routine,
                sinkLog, crashed>>

prepVars == <<exceptions, vulnerabilities, heap, objects, hasRelevancy, finalReport,
              armoContext>>
deliveryVars == <<chunksChan, totalVulnerabilities, firstVulnerabilitiesChunk,
                  nextPartNum, sendWG, errChan, posts, routine, sinkLog, crashed>>

AccountID == "account"
ScanID == "scan-1"
Timestamp == "t0"

\* a map or a slice is held by reference: an address of objects, 0 for nil
NilRef == 0
Deref(objs, ref) == IF ref = NilRef THEN EmptyMap ELSE objs[ref]

NoReport == [Designators |-> NilRef, Summary |-> <<>>, ContainerScanID |-> "",
             Timestamp |-> ""]

\* no call of SendStatus made yet
NoStatus ==
    [pc |-> "idle", step |-> 0, outcome |-> "ok", sender |-> "none", report |-> <<>>,
     ReportErrorsChan |-> <<>>, sent |-> <<>>, history |-> <<>>]

Init ==
    /\ status = NoStatus
    /\ in \in Inputs
    /\ pc = "CheckContext"
    /\ ret = "pending"
    /\ err = [multi |-> FALSE, errors |-> <<>>]
    /\ exceptions = {}
    /\ vulnerabilities = <<>>
    /\ heap = <<>>
    /\ objects = <<>>
    /\ hasRelevancy = FALSE
    /\ finalReport = NoReport
    /\ armoContext = NilRef
    /\ chunksChan = [buf |-> <<>>, closed |-> FALSE, next |-> 0]
    /\ totalVulnerabilities = 0
    /\ firstVulnerabilitiesChunk = [from |-> 1, to |-> 0]
    /\ nextPartNum = 0
    /\ sendWG = 0
    /\ errChan = [buf |-> <<>>, closed |-> FALSE]
    /\ posts = <<>>
    /\ routine = "none"
    /\ sinkLog = [p \in {} |-> 0]
    /\ crashed = FALSE

\* the error values: nil, an error, a multierror of several
NilErr == [multi |-> FALSE, errors |-> <<>>]
PlainErr(e) == IF e = "nil" THEN NilErr ELSE [multi |-> FALSE, errors |-> <<e>>]
\* what the caller sees of an error value
Seen(e) == IF e.errors = <<>> THEN "nil" ELSE IF e.multi THEN "multierror" ELSE e.errors[1]

\* return statement of SubmitCVE
Return(e) == pc' = "done" /\ ret' = e

\* a bug: the return after a failed step is missing
ReturnsOnNever(e) == FALSE

\* if err != nil { return err }
ReturnsOn(e) == e # "nil"

(***************************************************************************)
(* SubmitCVE, lines 136-155: the values of the context                     *)
(***************************************************************************)
ContextError(i) ==
    IF ~i.hasTimestamp THEN "ErrMissingTimestamp"
    ELSE IF ~i.hasScanID THEN "ErrMissingScanID"
    ELSE IF ~i.hasWorkload THEN "ErrCastingWorkload"
    ELSE IF ~i.scanIDValid THEN "ErrInvalidScanID"
    ELSE "nil"

CheckContext ==
    /\ pc = "CheckContext"
    /\ IF ContextError(in) # "nil"
       THEN Return(ContextError(in))
       ELSE pc' = "GetExceptions" /\ ret' = ret
    /\ UNCHANGED <<in, err, prepVars, deliveryVars>>

(***************************************************************************)
(* GetCVEExceptions                                                        *)
(***************************************************************************)
ToLower(s) == IF s = "Deployment" THEN "deployment" ELSE s

\* wlidpkg.Get*FromWlid: the component, or "" when the identifier lacks it
WlidPart(wlid, i) == IF i <= Len(wlid) THEN wlid[i] ELSE ""

ExceptionDesignator(i) ==
    [customerGUID |-> AccountID,
     cluster |-> WlidPart(i.wlid, 1),
     namespace |-> WlidPart(i.wlid, 2),
     kind |-> ToLower(WlidPart(i.wlid, 3)),
     name |-> WlidPart(i.wlid, 4),
     containerName |-> i.containerName]

\* a.getCVEExceptionsFunc: the policy store answers with a list or an error
PolicyStore(i, designator) ==
    IF i.excErr THEN [err |-> "ExceptionLookupFailed", list |-> {}]
    ELSE [err |-> "nil", list |-> i.exceptions]

GetCVEExceptions(i) ==
    IF ~i.hasWorkload THEN [err |-> "ErrCastingWorkload", list |-> {}]
    ELSE PolicyStore(i, ExceptionDesignator(i))

GetExceptions ==
    /\ pc = "GetExceptions"
    /\ LET r == GetCVEExceptions(in) IN
        /\ err' = PlainErr(r.err)
        /\ IF ReturnsOn(r.err)
           THEN Return(r.err) /\ exceptions' = exceptions
           ELSE pc' = "Convert" /\ ret' = ret /\ exceptions' = r.list
    /\ UNCHANGED <<in, vulnerabilities, heap, objects, hasRelevancy, finalReport,
                   armoContext, deliveryVars>>

(***************************************************************************)
(* domainToArmo and the merge of cve and cvep, lines 162-186               *)
(***************************************************************************)
\* conversion of one vulnerability set: one record per match, in order, the
\* exception policies applied as a flag; IsRelevant is a nil pointer (0)
domainToArmo(content, excs, fails) ==
    IF fails THEN [err |-> "ConversionFailed", list |-> <<>>]
    ELSE [err |-> "nil",
          list |-> [k \in DOMAIN content |->
                      [Name |-> content[k].Name, Size |-> content[k].Size,
                       ExceptionApplied |-> content[k].Name \in excs,
                       IsRelevant |-> 0,
                       Context |-> NilRef, Designators |-> NilRef]]]

\* lines 177-180
IndexRelevant(relevantVulnerabilities) ==
    {relevantVulnerabilities[k].Name : k \in DOMAIN relevantVulnerabilities}

\* a bug: isRelevant declared once, outside the loop, every pointer aliasing it
MarkRelevantShared(vulns, cvepIndices) ==
    [heap |-> IF vulns = <<>> THEN <<>>
              ELSE <<vulns[Len(vulns)].Name \in cvepIndices>>,
     vulns |-> [k \in DOMAIN vulns |-> [vulns[k] EXCEPT !.IsRelevant = 1]]]

\* a bug: the records that are not in the relevant set are left out
MarkRelevantOnlyCommon(vulns, cvepIndices) ==
    LET IsCommon(v) == v.Name \in cvepIndices
        common == SelectSeq(vulns, IsCommon)
    IN  [heap |-> [k \in DOMAIN common |-> TRUE],
         vulns |-> [k \in DOMAIN common |-> [common[k] EXCEPT !.IsRelevant = k]]]

\* lines 182-185: a fresh bool per iteration, its address stored in the record
MarkRelevant(vulns, cvepIndices) ==
    [heap |-> [k \in DOMAIN vulns |-> vulns[k].Name \in cvepIndices],
     vulns |-> [k \in DOMAIN vulns |-> [vulns[k] EXCEPT !.IsRelevant = k]]]

\* the value of a record's relevance flag: "unset" for the nil pointer
Relevance(h, v) ==
    IF v.IsRelevant = 0 THEN "unset" ELSE IF h[v.IsRelevant] THEN "true" ELSE "false"

Convert ==
    /\ pc = "Convert"
    /\ IF in.cveNil
       THEN \* *cve.Content dereferences a nil pointer: runtime panic
            /\ Return("panic")
            /\ UNCHANGED <<vulnerabilities, err>>
       ELSE LET r == domainToArmo(in.cve, exceptions, in.cveConvErr) IN
            /\ err' = PlainErr(r.err)
            /\ IF ReturnsOn(r.err)
               THEN Return(r.err) /\ UNCHANGED vulnerabilities
               ELSE pc' = "Merge" /\ ret' = ret /\ vulnerabilities' = r.list
    /\ UNCHANGED <<in, exceptions, heap, objects, hasRelevancy, finalReport,
                   armoContext, deliveryVars>>

Merge ==
    /\ pc = "Merge"
    /\ IF ~in.cvepNil
       THEN \* this err is a new variable of the block
            LET r == domainToArmo(in.cvep, exceptions, in.cvepConvErr) IN
            IF ReturnsOn(r.err)
            THEN /\ Return(r.err)
                 /\ hasRelevancy' = TRUE
                 /\ UNCHANGED <<vulnerabilities, heap>>
            ELSE LET m == MarkRelevant(vulnerabilities, IndexRelevant(r.list)) IN
                 /\ pc' = "BuildReport" /\ ret' = ret
                 /\ hasRelevancy' = TRUE
                 /\ vulnerabilities' = m.vulns
                 /\ heap' = m.heap
       ELSE /\ pc' = "BuildReport" /\ ret' = ret
            /\ UNCHANGED <<hasRelevancy, vulnerabilities, heap>>
    /\ UNCHANGED <<in, err, exceptions, objects, finalReport, armoContext, deliveryVars>>

(***************************************************************************)
(* The report and its designators, lines 188-221                           *)
(***************************************************************************)
WlidKeys == <<"cluster", "namespace", "kind", "name">>

\* identifiers.AttributesDesignatorsFromWLID: one attribute per component the
\* identifier has; it returns no error
AttributesDesignatorsFromWLID(wlid) ==
    [k \in {WlidKeys[n] : n \in 1..(IF Len(wlid) < 4 THEN Len(wlid) ELSE 4)} |->
        wlid[CHOOSE n \in 1..4 : WlidKeys[n] = k]]

\* cs.GenerateWorkloadHash: a deterministic function of the mapping it is given
GenerateWorkloadHash(attrs) == <<"hash", attrs>>

\* lines 199-210: an attribute of Args is copied when Args has it
BackfillArg(attrs, args, key) ==
    IF key \in DOMAIN args THEN MapSet(attrs, key, args[key]) ELSE attrs

\* lines 196-210
FillDesignators(attrs, i) ==
    LET a1 == MapSet(attrs, "containerName", i.containerName)
        a2 == MapSet(a1, "workloadHash", GenerateWorkloadHash(a1))
        a3 == MapSet(a2, "customerGUID", AccountID)
        a4 == BackfillArg(a3, i.args, "registryName")
        a5 == BackfillArg(a4, i.args, "repository")
        a6 == BackfillArg(a5, i.args, "tag")
    IN  BackfillArg(a6, i.args, "sensor")

\* identifiers.DesignatorToArmoContext(&designators, "designators")
DesignatorToArmoContext(attrs, scope) == [k \in DOMAIN attrs |-> <<scope, attrs[k]>>]

\* a bug: the loop stops before the last record
AttachIdentityButLast(vulns, ctx, des) ==
    [k \in DOMAIN vulns |->
        IF k < Len(vulns) THEN [vulns[k] EXCEPT !.Context = ctx, !.Designators = des]
        ELSE vulns[k]]

\* lines 214-217
AttachIdentity(vulns, ctx, des) ==
    [k \in DOMAIN vulns |-> [vulns[k] EXCEPT !.Context = ctx, !.Designators = des]]

\* summarize: the aggregate counts, with the report's designators
summarize(report, vulns, h, withRelevancy) ==
    [Designators |-> report.Designators,
     Context |-> NilRef,
     TotalCount |-> Len(vulns),
     RelevantCount |-> IF withRelevancy
                       THEN Cardinality({k \in DOMAIN vulns : Relevance(h, vulns[k]) = "true"})
                       ELSE 0]

\* addresses of the attribute map of finalReport.Designators and of armoContext
AttributesRef == 1
ContextRef == 2

\* lines 188-221; the attribute map is one object, filled in place and shared
\* by the report, the summary and every record, as is the context
BuildReport ==
    /\ pc = "BuildReport"
    /\ LET des == FillDesignators(AttributesDesignatorsFromWLID(in.wlid), in)
           ctx == DesignatorToArmoContext(des, "designators")
           vs == AttachIdentity(vulnerabilities, ContextRef, AttributesRef)
           report == [Designators |-> AttributesRef, Summary |-> <<>>,
                      ContainerScanID |-> ScanID, Timestamp |-> Timestamp]
           sum == summarize(report, vs, heap, hasRelevancy)
       IN /\ objects' = <<des, ctx>>
          /\ armoContext' = ContextRef
          /\ vulnerabilities' = vs
          /\ finalReport' = [report EXCEPT !.Summary = <<[sum EXCEPT !.Context = ContextRef]>>]
    /\ pc' = "Split"
    /\ UNCHANGED <<in, ret, err, exceptions, heap, hasRelevancy, deliveryVars>>

(***************************************************************************)
(* The chunk partitioner, httputils.SplitSlice2Chunks                      *)
(***************************************************************************)
\* a chunk is a Go slice of the vulnerability list: it shares the backing
\* array and is given by the indices it spans; nil is the empty slice
Slice(from, to) == [from |-> from, to |-> to]
NilSlice == Slice(1, 0)
SliceLen(c) == c.to - c.from + 1
\* the records of a slice of list
Records(list, c) == SubSeq(list, c.from, c.to)

\* a bug: the size is tested before the record is added, the chunk takes the
\* record that crosses the budget
ChunkEndOvershoot(list, from) ==
    LET fits == {j \in from..Len(list) : JSONSize(SubSeq(list, from, j)) <= maxBodySize}
    IN  IF fits = {} THEN from
        ELSE IF SeqMax(fits) < Len(list) THEN SeqMax(fits) + 1 ELSE SeqMax(fits)

\* last index of the chunk that starts at from: the longest run within the
\* byte budget, or the one record when it alone exceeds the budget
ChunkEnd(list, from) ==
    LET fits == {j \in from..Len(list) : JSONSize(SubSeq(list, from, j)) <= maxBodySize}
    IN  IF fits = {} THEN from ELSE SeqMax(fits)

\* line 224 (and 227-228): the producer starts; an empty list closes the channel
Split ==
    /\ pc = "Split"
    /\ chunksChan' = [buf |-> <<>>, closed |-> (Len(vulnerabilities) = 0), next |-> 1]
    /\ totalVulnerabilities' = Len(vulnerabilities)
    /\ pc' = "RecvFirst"
    /\ UNCHANGED <<in, ret, err, prepVars, firstVulnerabilitiesChunk, nextPartNum,
                   sendWG, errChan, posts, routine, sinkLog, crashed>>

\* a bug: a record that alone exceeds the budget is dropped
NextChunkDropOversize(list, from) ==
    IF JSONSize(SubSeq(list, from, from)) > maxBodySize
    THEN [chunk |-> Slice(from + 1, from), next |-> from + 1]
    ELSE [chunk |-> Slice(from, ChunkEnd(list, from)), next |-> ChunkEnd(list, from) + 1]

\* the chunk that starts at from, and where the next one starts
NextChunk(list, from) ==
    [chunk |-> Slice(from, ChunkEnd(list, from)), next |-> ChunkEnd(list, from) + 1]

\* a bug: the chunks are queued without a limit
HasRoomAlways(buf) == TRUE

\* the channel of chunks takes one more while it holds fewer than the hint
HasRoom(buf) == Len(buf) < ChunksBuffer

\* the producer hands over the next chunk; it blocks while the buffer is full
Produce ==
    /\ chunksChan.next >= 1
    /\ ~chunksChan.closed
    /\ chunksChan.next <= Len(vulnerabilities)
    /\ HasRoom(chunksChan.buf)
    /\ LET c == NextChunk(vulnerabilities, chunksChan.next) IN
        chunksChan' = [chunksChan EXCEPT !.buf = Append(@, c.chunk), !.next = c.next]
    /\ UNCHANGED <<in, pc, ret, err, prepVars, totalVulnerabilities,
                   firstVulnerabilitiesChunk, nextPartNum, sendWG, errChan, posts,
                   routine, sinkLog, crashed>>

\* the producer closes the channel after the last chunk
CloseChunks ==
    /\ chunksChan.next >= 1
    /\ ~chunksChan.closed
    /\ chunksChan.next > Len(vulnerabilities)
    /\ chunksChan' = [chunksChan EXCEPT !.closed = TRUE]
    /\ UNCHANGED <<in, pc, ret, err, prepVars, totalVulnerabilities,
                   firstVulnerabilitiesChunk, nextPartNum, sendWG, errChan, posts,
                   routine, sinkLog, crashed>>

\* lines 230-231: a receive from the closed, empty channel yields nil
RecvFirst ==
    /\ pc = "RecvFirst"
    /\ \/ /\ chunksChan.buf # <<>>
          /\ firstVulnerabilitiesChunk' = Head(chunksChan.buf)
          /\ chunksChan' = [chunksChan EXCEPT !.buf = Tail(@)]
       \/ /\ chunksChan.buf = <<>> /\ chunksChan.closed
          /\ firstVulnerabilitiesChunk' = NilSlice
          /\ UNCHANGED chunksChan
    /\ pc' = "SendSummary"
    /\ UNCHANGED <<in, ret, err, prepVars, totalVulnerabilities, nextPartNum, sendWG,
                   errChan, posts, routine, sinkLog, crashed>>

(***************************************************************************)
(* Delivery: sendSummaryAndVulnerabilities, sendVulnerabilitiesRoutine,    *)
(* the post goroutines, the closing of errChan and the drain loop          *)
(***************************************************************************)
\* number of the part that carries the summary
FirstPartNum == 1

\* a report of one part, as handed to a post goroutine (vulns is a slice)
PartReport(report, part, summary, vulns) ==
    [PartNum |-> part, Summary |-> summary, Vulnerabilities |-> vulns,
     ContainerScanID |-> report.ContainerScanID, Designators |-> report.Designators,
     Timestamp |-> report.Timestamp]

\* line 233: the summary and the first chunk, in one report when they fit the
\* body size together and in two otherwise; returns the next part number
sendSummaryAndVulnerabilities(report, list, firstChunk) ==
    IF SummarySize + JSONSize(Records(list, firstChunk)) <= maxBodySize
    THEN [reports |-> <<PartReport(report, FirstPartNum, report.Summary, firstChunk)>>,
          next |-> FirstPartNum + 1]
    ELSE [reports |-> <<PartReport(report, FirstPartNum, report.Summary, NilSlice),
                        PartReport(report, FirstPartNum + 1, <<>>, firstChunk)>>,
          next |-> FirstPartNum + 2]

\* a post goroutine right after it is started (wg.Add(1); go ...)
NewPost(report) == [report |-> report, st |-> "posting", err |-> "nil"]

SendSummary ==
    /\ pc = "SendSummary"
    /\ LET r == sendSummaryAndVulnerabilities(finalReport, vulnerabilities,
                                               firstVulnerabilitiesChunk) IN
        /\ posts' = posts \o [k \in DOMAIN r.reports |-> NewPost(r.reports[k])]
        /\ sendWG' = sendWG + Len(r.reports)
        /\ nextPartNum' = r.next
    /\ pc' = "Dispatch"
    /\ UNCHANGED <<in, ret, err, prepVars, chunksChan, totalVulnerabilities,
                   firstVulnerabilitiesChunk, errChan, routine, sinkLog, crashed>>

\* a bug: the condition inverted
MoreChunksInverted(total, firstCount) == total = firstCount

\* line 235
MoreChunks(total, firstCount) == total # firstCount

\* a bug: the count of the first chunk passed as the next part number
RoutineArgsSwapped(total, firstCount, next) ==
    [totalVulnerabilities |-> total, firstChunkVulnerabilitiesCount |-> next,
     nextPartNum |-> firstCount]

\* line 237: the integers handed to sendVulnerabilitiesRoutine
RoutineArgs(total, firstCount, next) ==
    [totalVulnerabilities |-> total, firstChunkVulnerabilitiesCount |-> firstCount,
     nextPartNum |-> next]

\* lines 235-246: start the goroutine that sends the rest, or the one that only
\* waits for the summary post and closes the error channel
Dispatch ==
    /\ pc = "Dispatch"
    /\ IF MoreChunks(totalVulnerabilities, SliceLen(firstVulnerabilitiesChunk))
       THEN /\ routine' = "sending"
            /\ nextPartNum' = RoutineArgs(totalVulnerabilities,
                                          SliceLen(firstVulnerabilitiesChunk),
                                          nextPartNum).nextPartNum
       ELSE /\ routine' = "closer"
            /\ UNCHANGED nextPartNum
    /\ pc' = "Drain"
    /\ UNCHANGED <<in, ret, err, prepVars, chunksChan, totalVulnerabilities,
                   firstVulnerabilitiesChunk, sendWG, errChan, posts, sinkLog, crashed>>

\* sendVulnerabilitiesRoutine: every further chunk is posted as its own part
SendVulnerabilities ==
    /\ routine = "sending"
    /\ \/ /\ chunksChan.buf # <<>>
          /\ posts' = Append(posts,
                NewPost(PartReport(finalReport, nextPartNum, <<>>, Head(chunksChan.buf))))
          /\ chunksChan' = [chunksChan EXCEPT !.buf = Tail(@)]
          /\ sendWG' = sendWG + 1
          /\ nextPartNum' = nextPartNum + 1
          /\ UNCHANGED routine
       \/ /\ chunksChan.buf = <<>> /\ chunksChan.closed
          /\ routine' = "waiting"
          /\ UNCHANGED <<posts, chunksChan, sendWG, nextPartNum>>
    /\ UNCHANGED <<in, pc, ret, err, prepVars, totalVulnerabilities,
                   firstVulnerabilitiesChunk, errChan, sinkLog, crashed>>

\* a bug: the channel is closed without waiting for the posts
AllPostsDoneNoWait(wg) == TRUE

\* wg.Wait() returns
AllPostsDone(wg) == wg = 0

\* sendVulnerabilitiesRoutine: after the last chunk, wait for every post and close
RoutineClose ==
    /\ routine = "waiting"
    /\ AllPostsDone(sendWG)
    /\ errChan' = [errChan EXCEPT !.closed = TRUE]
    /\ routine' = "finished"
    /\ UNCHANGED <<in, pc, ret, err, prepVars, chunksChan, totalVulnerabilities,
                   firstVulnerabilitiesChunk, nextPartNum, sendWG, posts, sinkLog, crashed>>

\* lines 240-245
CloserClose ==
    /\ routine = "closer"
    /\ AllPostsDone(sendWG)
    /\ errChan' = [errChan EXCEPT !.closed = TRUE]
    /\ routine' = "finished"
    /\ UNCHANGED <<in, pc, ret, err, prepVars, chunksChan, totalVulnerabilities,
                   firstVulnerabilitiesChunk, nextPartNum, sendWG, posts, sinkLog, crashed>>

\* the answer of the sink to the report of a part
SinkOutcome(i, part) == IF part \in DOMAIN i.sink THEN i.sink[part] ELSE "ok"

\* the sink's log (requests received per part number) with one more request
Received(log, report) ==
    MapSet(log, report.PartNum,
           IF report.PartNum \in DOMAIN log THEN log[report.PartNum] + 1 ELSE 1)

\* errorChan <- err
DeliverError(ch, e) == [ch EXCEPT !.buf = Append(@, e)]

\* a post goroutine: the report is posted to the sink; an error is written to
\* the error channel (the goroutine blocks while its buffer is full); wg.Done()
Post(g) ==
    /\ posts[g].st = "posting"
    /\ sinkLog' = Received(sinkLog, posts[g].report)
    /\ LET e == SinkOutcome(in, posts[g].report.PartNum) IN
        IF e = "ok"
        THEN /\ posts' = [posts EXCEPT ![g].st = "done"]
             /\ sendWG' = sendWG - 1
             /\ UNCHANGED <<errChan, crashed>>
        ELSE IF errChan.closed
        THEN \* send on a closed channel
             /\ crashed' = TRUE
             /\ posts' = [posts EXCEPT ![g].st = "done", ![g].err = e]
             /\ UNCHANGED <<errChan, sendWG>>
        ELSE IF Len(errChan.buf) < ErrChanCap
        THEN /\ errChan' = DeliverError(errChan, e)
             /\ posts' = [posts EXCEPT ![g].st = "done", ![g].err = e]
             /\ sendWG' = sendWG - 1
             /\ UNCHANGED crashed
        ELSE /\ posts' = [posts EXCEPT ![g].st = "blocked", ![g].err = e]
             /\ UNCHANGED <<errChan, sendWG, crashed>>
    /\ UNCHANGED <<in, pc, ret, err, prepVars, chunksChan, totalVulnerabilities,
                   firstVulnerabilitiesChunk, nextPartNum, routine>>

\* a post goroutine blocked on the full error channel goes on
PostUnblock(g) ==
    /\ posts[g].st = "blocked"
    /\ IF errChan.closed
       THEN /\ crashed' = TRUE
            /\ posts' = [posts EXCEPT ![g].st = "done"]
            /\ UNCHANGED <<errChan, sendWG>>
       ELSE /\ Len(errChan.buf) < ErrChanCap
            /\ errChan' = DeliverError(errChan, posts[g].err)
            /\ posts' = [posts EXCEPT ![g].st = "done"]
            /\ sendWG' = sendWG - 1
            /\ UNCHANGED crashed
    /\ UNCHANGED <<in, pc, ret, err, prepVars, chunksChan, totalVulnerabilities,
                   firstVulnerabilitiesChunk, nextPartNum, routine, sinkLog>>

\* a bug: err = e, the errors collected before are lost
AppendErrorOverwrite(e1, e) == [multi |-> TRUE, errors |-> <<e>>]

\* multierror.Append(err, e)
AppendError(e1, e) == [multi |-> TRUE, errors |-> Append(e1.errors, e)]

\* line 250: err = multierror.Append(err, e)
DrainReceive ==
    /\ pc = "Drain"
    /\ errChan.buf # <<>>
    /\ err' = AppendError(err, Head(errChan.buf))
    /\ errChan' = [errChan EXCEPT !.buf = Tail(@)]
    /\ UNCHANGED <<in, pc, ret, prepVars, chunksChan, totalVulnerabilities,
                   firstVulnerabilitiesChunk, nextPartNum, sendWG, posts, routine,
                   sinkLog, crashed>>

\* lines 249 and 252: the range loop ends when the channel is closed and empty
DrainReturn ==
    /\ pc = "Drain"
    /\ errChan.buf = <<>>
    /\ errChan.closed
    /\ Return(Seen(err))
    /\ UNCHANGED <<in, err, prepVars, deliveryVars>>

Next ==
    /\ ~crashed
    /\ UNCHANGED status
    /\ \/ CheckContext
       \/ GetExceptions
       \/ Convert
       \/ Merge
       \/ BuildReport
       \/ Split
       \/ Produce
       \/ CloseChunks
       \/ RecvFirst
       \/ SendSummary
       \/ Dispatch
       \/ SendVulnerabilities
       \/ RoutineClose
       \/ CloserClose
       \/ \E g \in DOMAIN posts : Post(g)
       \/ \E g \in DOMAIN posts : PostUnblock(g)
       \/ DrainReceive
       \/ DrainReturn

Spec == Init /\ [][Next]_vars

(***************************************************************************)
(* Scheduling: a goroutine that can take a step eventually takes it; the   *)
(* sink answers every request and the partitioner yields or closes         *)
(***************************************************************************)
Caller ==
    \/ CheckContext \/ GetExceptions \/ Convert \/ Merge \/ BuildReport \/ Split
    \/ RecvFirst \/ SendSummary \/ Dispatch \/ DrainReceive \/ DrainReturn
Partitioner == Produce \/ CloseChunks
Routine == SendVulnerabilities \/ RoutineClose \/ CloserClose
Posts == \E g \in DOMAIN posts : Post(g) \/ PostUnblock(g)

FairSpec ==
    /\ Spec
    /\ WF_vars(~crashed /\ UNCHANGED status /\ Caller)
    /\ WF_vars(~crashed /\ UNCHANGED status /\ Partitioner)
    /\ WF_vars(~crashed /\ UNCHANGED status /\ Routine)
    /\ WF_vars(~crashed /\ UNCHANGED status /\ Posts)

(***************************************************************************)
(* SendStatus: one status report per call, its outcome read from an        *)
(* unbuffered channel                                                      *)
(***************************************************************************)
ActionName == "vuln scan"
ReporterName == "ca-vuln-scan"

\* the tables indexed by the step (Go indexes from 0)
details == <<"JobStarted", "JobStarted", "JobSuccess", "JobDone">>
statuses == <<"Inqueueing", "Dequeueing", "Dequeueing", "Dequeueing">>
Steps == 0..(Len(statuses) - 1)

\* the scan command the context carries
StatusWorkload ==
    [LastAction |-> 0, Wlid |-> ValidWlid, ContainerName |-> "nginx", ImageTagNormalized |-> "nginx:1",
     ImageHash |-> "sha256:1", JobID |-> "job-1", ParentJobID |-> "job-0"]

\* strconv.Itoa: the decimal text of a number
Itoa(n) == <<"decimal", n>>

\* fmt.Sprintf of the target line
StatusTarget(w) == <<"vuln scan:: scanning", w.Wlid, w.ContainerName, w.ImageTagNormalized, w.ImageHash>>

\* line 115
ReportStatus(step) == statuses[step + 1]

\* a bug: the details read from the table of statuses
ReportDetailsFromStatuses(step) == statuses[step + 1]

\* line 123
ReportDetails(step) == details[step + 1]

NoStatusReport == <<>>

NewStatusReport(w, step) ==
    [Reporter |-> ReporterName, CustomerGUID |-> AccountID,
     Status |-> ReportStatus(step),
     Target |-> StatusTarget(w),
     ActionID |-> Itoa(w.LastAction + 1), ActionIDN |-> w.LastAction + 1,
     ActionName |-> ActionName, JobID |-> w.JobID, ParentAction |-> w.ParentJobID,
     Details |-> ReportDetails(step)]

\* the calls made: with or without a workload in the context, any step,
\* the sink accepting or refusing the report
StatusCalls ==
    [hasWorkload : {TRUE}, step : Steps, sink : {"ok", "transport"}]
        \cup [hasWorkload : {FALSE}, step : Steps, sink : {"ok"}]

\* the error the sender writes for what the sink answered
StatusError(sink) == IF sink = "ok" THEN "nil" ELSE sink

\* a bug: the error read from the channel is dropped
StatusReturnNil(e) == "nil"

\* the error read from the channel is the result of the call
StatusReturn(e) == e

EndStatusCall(st, call, result) ==
    [st EXCEPT !.pc = "idle", !.step = 0, !.outcome = "ok", !.sender = "none",
               !.report = NoStatusReport, !.ReportErrorsChan = <<>>,
               !.history = Append(@, [hasWorkload |-> call.hasWorkload, step |-> call.step,
                                      sink |-> call.sink, ret |-> result])]

\* lines 101-127: the workload check, the report, the channel, the sender started
SendStatus(call) ==
    /\ status.pc = "idle"
    /\ Len(status.history) < MaxCalls
    /\ IF ~call.hasWorkload
       THEN status' = EndStatusCall(status, call, "ErrCastingWorkload")
       ELSE status' = [status EXCEPT !.pc = "receive", !.step = call.step,
                                     !.outcome = call.sink, !.sender = "sending",
                                     !.report = NewStatusReport(StatusWorkload, call.step)]
    /\ UNCHANGED submitVars

\* sendStatusFunc as called on line 127: the sender holds the report, the
\* status argument is JobSuccess and sendReport is true; the sender hands the
\* report to the sink and offers the outcome on the channel
StatusSend ==
    /\ status.sender = "sending"
    /\ status' = [status EXCEPT !.sender = "offering",
                                !.ReportErrorsChan = <<StatusError(status.outcome)>>,
                                !.sent = Append(@, [call |-> Len(status.history) + 1,
                                                    step |-> status.step,
                                                    report |-> status.report,
                                                    status |-> "JobSuccess",
                                                    sendReport |-> TRUE])]
    /\ UNCHANGED submitVars

\* line 128-129: the receive meets the sender's write, the error is returned
StatusReceive ==
    /\ status.pc = "receive"
    /\ status.ReportErrorsChan # <<>>
    /\ status' = EndStatusCall(status,
                               [hasWorkload |-> TRUE, step |-> status.step,
                                sink |-> status.outcome],
                               StatusReturn(Head(status.ReportErrorsChan)))
    /\ UNCHANGED submitVars

StatusInit ==
    /\ Init
    /\ in = BaseInput

StatusNext ==
    \/ \E call \in StatusCalls : SendStatus(call)
    \/ StatusSend
    \/ StatusReceive

\* the sender runs once started, and the caller resumes once its receive can
StatusSpec ==
    /\ StatusInit
    /\ [][StatusNext]_vars
    /\ WF_vars(StatusSend)
    /\ WF_vars(StatusReceive)

(***************************************************************************)
(* Properties                                                              *)
(***************************************************************************)
PostedParts == {posts[g].report.PartNum : g \in DOMAIN posts}
FailedPosts == {g \in DOMAIN posts : posts[g].err # "nil"}
CountIn(seq, x) == Cardinality({k \in DOMAIN seq : seq[k] = x})
ErrorKinds == {"transport", "status500"}

\* the submission got as far as handing reports to post goroutines
DeliveryStarted == posts # <<>>

\* the errors SubmitCVE returns before it builds the report
FailFastErrors ==
    {"ErrMissingTimestamp", "ErrMissingScanID", "ErrCastingWorkload", "ErrInvalidScanID",
     "ExceptionLookupFailed", "ConversionFailed"}

\* C1: whenever SubmitCVE returns a missing timestamp, a missing scan ID, a
\* missing workload, an invalid scan ID, a failed exception lookup or a failed
\* conversion, no post goroutine was started and the sink received nothing, in
\* that state and in every later one.
C1_FailFast ==
    ret \in FailFastErrors => (posts = <<>> /\ DOMAIN sinkLog = {} /\ sendWG = 0)

C1_Witness ==
    /\ pc = "done" /\ ret = "ConversionFailed" /\ ~in.cvepNil
    /\ vulnerabilities # <<>>

\* C2: when SubmitCVE returns after delivery started, it returns nil exactly
\* when every post succeeded, and otherwise a multierror whose errors are the
\* errors of the failed posts, each as often as posts failed with it.
C2_ErrorAggregation ==
    (pc = "done" /\ DeliveryStarted) =>
        /\ ret \in {"nil", "multierror"}
        /\ (ret = "nil") <=> (FailedPosts = {})
        /\ Len(err.errors) = Cardinality(FailedPosts)
        /\ \A k \in ErrorKinds :
              CountIn(err.errors, k) = Cardinality({g \in FailedPosts : posts[g].err = k})

C2_Witness ==
    /\ pc = "done" /\ ret = "multierror"
    /\ \E g \in DOMAIN posts : posts[g].err = "nil"
    /\ CountIn(err.errors, "transport") >= 1
    /\ CountIn(err.errors, "status500") >= 1

\* C3: when SubmitCVE returns after delivery started, every post goroutine ran
\* to its end, the sink received every part exactly once whatever the other
\* posts got, one part carries the summary, and every record of the list is in
\* the chunk of exactly one part.
C3_FailureIsolation ==
    (pc = "done" /\ DeliveryStarted) =>
        /\ \A g \in DOMAIN posts : posts[g].st = "done"
        /\ DOMAIN sinkLog = PostedParts
        /\ \A p \in DOMAIN sinkLog : sinkLog[p] = 1
        /\ Cardinality({g \in DOMAIN posts : posts[g].report.Summary # <<>>}) = 1
        /\ \A k \in DOMAIN vulnerabilities :
              Cardinality({g \in DOMAIN posts :
                  /\ posts[g].report.Vulnerabilities.from <= k
                  /\ k <= posts[g].report.Vulnerabilities.to}) = 1

C3_Witness ==
    /\ pc = "done" /\ Len(posts) >= 3
    /\ Cardinality(FailedPosts) = 1
    /\ \A p \in PostedParts : p \in DOMAIN sinkLog /\ sinkLog[p] = 1

\* C4: in every state, the post goroutines started so far carry the part
\* numbers FirstPartNum, FirstPartNum + 1, ... in the order they were started,
\* their chunks follow the order of the list, the routine numbers its next
\* part after the last one, and the sink saw no other number.
C4_PartNumbering ==
    /\ \A g \in DOMAIN posts : posts[g].report.PartNum = FirstPartNum + g - 1
    /\ \A g, h \in DOMAIN posts :
          (g < h /\ SliceLen(posts[g].report.Vulnerabilities) > 0) =>
              posts[g].report.Vulnerabilities.to < posts[h].report.Vulnerabilities.from
    /\ routine = "sending" => nextPartNum = FirstPartNum + Len(posts)
    /\ DOMAIN sinkLog \subseteq PostedParts

C4_Witness ==
    /\ Len(posts) >= 3
    /\ \E g, h \in DOMAIN posts : g < h /\ posts[g].st = "posting" /\ posts[h].st = "done"

\* C5: under fair scheduling every call of SubmitCVE eventually returns.
C5_Termination == <>(pc = "done")

C5_Witness ==
    /\ pc = "done"
    /\ Len(err.errors) > ErrChanCap
    /\ chunksChan.closed /\ errChan.closed

\* the chunks the partitioner has produced so far, in the order it produced
\* them: those taken from the channel, then those still in its buffer
NonEmptySlice(c) == SliceLen(c) > 0
TakenChunks ==
    IF pc = "SendSummary"
    THEN SelectSeq(<<firstVulnerabilitiesChunk>>, NonEmptySlice)
    ELSE SelectSeq([g \in DOMAIN posts |-> posts[g].report.Vulnerabilities], NonEmptySlice)
ProducedChunks == TakenChunks \o chunksChan.buf

RECURSIVE Concat(_, _)
Concat(list, chunks) ==
    IF chunks = <<>> THEN <<>>
    ELSE Records(list, Head(chunks)) \o Concat(list, Tail(chunks))

RECURSIVE SumLen(_)
SumLen(chunks) == IF chunks = <<>> THEN 0 ELSE SliceLen(Head(chunks)) + SumLen(Tail(chunks))

\* C6: once the partitioner runs, the chunks it has produced, concatenated in
\* the order of production, are the part of the list it has gone through; the
\* chunks are non-empty slices that follow one another without gap or overlap,
\* the count returned is the length of the list, and when the channel is closed
\* the chunks are the whole list and their lengths sum to the count.
C6_ChunkConservation ==
    chunksChan.next >= 1 =>
        /\ Concat(vulnerabilities, ProducedChunks)
              = SubSeq(vulnerabilities, 1, chunksChan.next - 1)
        /\ \A k \in DOMAIN ProducedChunks :
              /\ SliceLen(ProducedChunks[k]) >= 1
              /\ ProducedChunks[k].from
                    = (IF k = 1 THEN 1 ELSE ProducedChunks[k - 1].to + 1)
        /\ totalVulnerabilities = Len(vulnerabilities)
        /\ chunksChan.closed =>
              /\ Concat(vulnerabilities, ProducedChunks) = vulnerabilities
              /\ SumLen(ProducedChunks) = totalVulnerabilities

C6_Witness ==
    /\ chunksChan.closed
    /\ Len(ProducedChunks) >= 2
    /\ \E k \in DOMAIN ProducedChunks : SliceLen(ProducedChunks[k]) >= 2
    /\ \E k \in DOMAIN ProducedChunks :
          JSONSize(Records(vulnerabilities, ProducedChunks[k])) > maxBodySize

\* the merge is over and SubmitCVE has not failed
Merged ==
    \/ pc \in {"BuildReport", "Split", "RecvFirst", "SendSummary", "Dispatch", "Drain"}
    \/ pc = "done" /\ DeliveryStarted

\* names of the converted relevant set
RelevantNames == IndexRelevant(domainToArmo(in.cvep, exceptions, FALSE).list)

\* C7: after the merge, without a relevant set hasRelevancy is false and every
\* record's flag is unset; with one, hasRelevancy is true and every record's
\* flag is true when its name is among the names of the converted relevant
\* set and false otherwise, no two records sharing the cell of their flag.
C7_RelevanceTagging ==
    Merged =>
        IF in.cvepNil
        THEN /\ ~hasRelevancy
             /\ \A k \in DOMAIN vulnerabilities :
                   Relevance(heap, vulnerabilities[k]) = "unset"
        ELSE /\ hasRelevancy
             /\ \A k \in DOMAIN vulnerabilities :
                   Relevance(heap, vulnerabilities[k])
                      = (IF vulnerabilities[k].Name \in RelevantNames THEN "true" ELSE "false")
             /\ \A j, k \in DOMAIN vulnerabilities :
                   j # k => vulnerabilities[j].IsRelevant # vulnerabilities[k].IsRelevant

C7_Witness ==
    /\ Merged /\ ~in.cvepNil
    /\ Len(vulnerabilities) >= 3
    /\ Relevance(heap, vulnerabilities[1]) = "true"
    /\ Relevance(heap, vulnerabilities[Len(vulnerabilities)]) = "false"
    /\ \E n \in RelevantNames : \A k \in DOMAIN vulnerabilities : vulnerabilities[k].Name # n

\* the designators and the context a record or a summary carries
DesignatorsOf(x) == Deref(objects, x.Designators)
ContextOf(x) == Deref(objects, x.Context)

\* C8: for every part handed to a post goroutine, every record of its chunk
\* carries the designators and the context of the summary of the submission,
\* and these designators hold the container name, the workload hash, the
\* customer and every attribute of registry, repository, tag and sensor that
\* Args has, with the value Args gives it.
C8_UniformIdentity ==
    \A g \in DOMAIN posts :
        LET summary == finalReport.Summary[1]
            chunk == Records(vulnerabilities, posts[g].report.Vulnerabilities)
        IN  /\ posts[1].report.Summary = <<summary>>
            /\ {"containerName", "workloadHash", "customerGUID"} \cup DOMAIN in.args
                  \subseteq DOMAIN DesignatorsOf(summary)
            /\ DesignatorsOf(summary)["containerName"] = in.containerName
            /\ DesignatorsOf(summary)["customerGUID"] = AccountID
            /\ \A a \in DOMAIN in.args : DesignatorsOf(summary)[a] = in.args[a]
            /\ ContextOf(summary) = DesignatorToArmoContext(DesignatorsOf(summary), "designators")
            /\ \A k \in DOMAIN chunk :
                  /\ DesignatorsOf(chunk[k]) = DesignatorsOf(summary)
                  /\ ContextOf(chunk[k]) = ContextOf(summary)

C8_Witness ==
    /\ pc = "done" /\ Len(posts) >= 2
    /\ DOMAIN in.args = ArgKeys
    /\ \A g \in DOMAIN posts : posts[g].st = "done"
    /\ SliceLen(posts[2].report.Vulnerabilities) >= 1

\* the context holds every value and the policy store answers
ReachesConversion(i) == ContextError(i) = "nil" /\ ~i.excErr

\* C9: a call whose full set has no content returns ErrMissingScanContent as
\* an error value, and the sink receives nothing.
C9_MissingScanContent ==
    (pc = "done" /\ in.cveNil /\ ReachesConversion(in)) =>
        (ret = "ErrMissingScanContent" /\ DOMAIN sinkLog = {})

\* the workload identifier has its four components
Decomposable(wlid) == Len(wlid) = 4

\* C10: a call whose workload identifier cannot be decomposed returns
\* ErrInvalidWorkloadIdentifier, and the sink receives nothing.
C10_InvalidWorkloadIdentifier ==
    (~Decomposable(in.wlid) /\ ReachesConversion(in)) =>
        /\ DOMAIN sinkLog = {}
        /\ pc = "done" => ret = "ErrInvalidWorkloadIdentifier"

\* the reports the sink got from the i-th call of SendStatus
SentBy(i) == {k \in DOMAIN status.sent : status.sent[k].call = i}

\* the labels of each step
StepLabels(step) ==
    CASE step = 0 -> <<"Inqueueing", "JobStarted">>
      [] step = 1 -> <<"Dequeueing", "JobStarted">>
      [] step = 2 -> <<"Dequeueing", "JobSuccess">>
      [] step = 3 -> <<"Dequeueing", "JobDone">>

StatusOutcome ==
    /\ \A i \in DOMAIN status.history :
          LET h == status.history[i]
          IN  IF h.hasWorkload
              THEN /\ Cardinality(SentBy(i)) = 1
                   /\ h.ret = (IF h.sink = "ok" THEN "nil" ELSE h.sink)
              ELSE /\ SentBy(i) = {}
                   /\ h.ret = "ErrCastingWorkload"
    /\ Cardinality(SentBy(Len(status.history) + 1)) <= 1

\* C12: every finished call of SendStatus that had a workload handed exactly
\* one report to the sink and returned what that send gave, nil or its error;
\* a call without a workload returned the casting error and handed over
\* nothing; and a call that waits for its result always gets it and returns.
C12_StatusOutcome ==
    /\ []StatusOutcome
    /\ (status.pc = "receive") ~> (status.pc = "idle")

C12_Witness ==
    /\ Len(status.history) = 3
    /\ status.history[1].ret = "transport"
    /\ status.history[2].ret = "ErrCastingWorkload"
    /\ status.history[3].ret = "nil"
    /\ status.history[3].hasWorkload
    /\ Len(status.sent) = 2

\* the records handed to post goroutines so far
DispatchedRecords == SumLen([g \in DOMAIN posts |-> posts[g].report.Vulnerabilities])

\* errChan is closed only once every post goroutine has ended with its error,
\* if any, written, and no goroutine has written to the closed channel
ClosedAfterPosts ==
    /\ ~crashed
    /\ errChan.closed =>
          /\ posts # <<>>
          /\ \A g \in DOMAIN posts : posts[g].st = "done"
          /\ sendWG = 0
          /\ routine = "finished"
          /\ DispatchedRecords = Len(vulnerabilities)
          /\ Len(err.errors) + Len(errChan.buf) = Cardinality(FailedPosts)

\* the one close: by the goroutine that waited, which then ends for good
ClosedOnce ==
    /\ errChan.closed => errChan'.closed
    /\ (~errChan.closed /\ errChan'.closed) =>
          (routine \in {"waiting", "closer"} /\ routine' = "finished")
    /\ routine = "finished" => routine' = "finished"

\* C13: the error channel is closed once, by the goroutine that waited for the
\* posts, and only when every post goroutine started has ended and written its
\* error; nothing is written to the channel after that, with one chunk and
\* with several.
C13_ErrorChannelClosure == []ClosedAfterPosts /\ [][ClosedOnce]_vars

C13_Witness ==
    /\ errChan.closed
    /\ Len(posts) >= 3
    /\ Cardinality(FailedPosts) >= 2
    /\ errChan.buf # <<>>
    /\ pc = "Drain"

\* the attribute mapping of the designators of the report, once built
FinalAttributes == Deref(objects, AttributesRef)

\* a mapping without one of its keys
Without(m, key) == [k \in DOMAIN m \ {key} |-> m[k]]

\* the hash the same submission gets when Args is empty
HashWithoutArgs ==
    FillDesignators(AttributesDesignatorsFromWLID(in.wlid),
                    [in EXCEPT !.args = ArgsOf({})])["workloadHash"]

\* C14: once the designators are built, the workload hash they hold is the
\* hash of the mapping with every backfilled attribute in it (container name,
\* customer, and registry, repository, tag and sensor when Args has them), so
\* a submission with attributes from Args is hashed otherwise than the same
\* submission without them.
C14_WorkloadHashAfterBackfill ==
    (finalReport # NoReport /\ finalReport.Designators # NilRef) =>
        /\ FinalAttributes["workloadHash"]
              = GenerateWorkloadHash(Without(FinalAttributes, "workloadHash"))
        /\ DOMAIN in.args # {} => FinalAttributes["workloadHash"] # HashWithoutArgs

\* the first chunk was taken, holds every record, and the summary was handed over
SinglePart ==
    /\ pc \in {"Dispatch", "Drain", "done"}
    /\ posts # <<>>
    /\ totalVulnerabilities = SliceLen(firstVulnerabilitiesChunk)

\* SubmitCVE has returned what the posts gave: nil, or their errors
ReturnedErrorsOfPosts ==
    /\ \A g \in DOMAIN posts : posts[g].st = "done"
    /\ (ret = "nil") <=> (FailedPosts = {})
    /\ (ret # "nil") => ret = "multierror"
    /\ \A k \in ErrorKinds :
          CountIn(err.errors, k) = Cardinality({g \in FailedPosts : posts[g].err = k})

\* C15 as the claim states it: when the first chunk holds every record, one
\* report is sent, the part with the summary, and SubmitCVE returns after
\* that send has ended, with its error if it failed.
C15_SinglePartOnlyPartOne ==
    SinglePart =>
        /\ Len(posts) = 1
        /\ posts[1].report.PartNum = FirstPartNum
        /\ pc = "done" => ReturnedErrorsOfPosts

\* C15, amended: when the first chunk holds every record, no chunk after the
\* first is sent.  The part with the summary carries the first chunk when the
\* two fit one body; when they do not, the summary goes alone and the first
\* chunk follows as one more part.  SubmitCVE returns after these sends have
\* ended, with the errors of those that failed.
C15_SinglePart ==
    SinglePart =>
        /\ routine \in {"none", "closer", "finished"}
        /\ posts[1].report.PartNum = FirstPartNum
        /\ posts[1].report.Summary # <<>>
        /\ IF SummarySize + JSONSize(vulnerabilities) <= maxBodySize
           THEN /\ Len(posts) = 1
                /\ posts[1].report.Vulnerabilities = firstVulnerabilitiesChunk
           ELSE /\ Len(posts) = 2
                /\ SliceLen(posts[1].report.Vulnerabilities) = 0
                /\ posts[2].report.PartNum = FirstPartNum + 1
                /\ posts[2].report.Summary = <<>>
                /\ posts[2].report.Vulnerabilities = firstVulnerabilitiesChunk
        /\ pc = "done" => ReturnedErrorsOfPosts

C15_Witness ==
    /\ SinglePart
    /\ pc = "done"
    /\ Len(posts) = 2
    /\ posts[1].err = "nil"
    /\ posts[2].err # "nil"
    /\ ret = "multierror"

\* the number of chunks the list is cut into from index from on
RECURSIVE CountChunks(_, _)
CountChunks(list, from) ==
    IF from > Len(list) THEN 0 ELSE 1 + CountChunks(list, ChunkEnd(list, from) + 1)

\* the parts a submission of the list is sent in, whatever the scheduling
ExpectedParts ==
    LET n == CountChunks(vulnerabilities, 1) IN
    IF n = 0 THEN 1
    ELSE IF SummarySize + JSONSize(SubSeq(vulnerabilities, 1, ChunkEnd(vulnerabilities, 1)))
               <= maxBodySize
         THEN n
         ELSE n + 1

\* the posts started by the routine that sends the chunks after the first
LaterPosts ==
    {g \in DOMAIN posts :
        /\ posts[g].report.Summary = <<>>
        /\ posts[g].report.Vulnerabilities # firstVulnerabilitiesChunk}

\* C16: a chunk after the first is handed to a post goroutine only when the
\* first chunk has been taken from the head of the list and the part with the
\* summary has been handed over before it; and in whatever order the posts
\* end, SubmitCVE returns with the same parts received by the sink, each once,
\* and the same errors collected, each as often as the sink gave it.
C16_DispatchOrdering ==
    /\ (routine # "none" \/ LaterPosts # {}) =>
          /\ pc \in {"Drain", "done"}
          /\ posts # <<>>
          /\ posts[1].report.Summary # <<>>
          /\ \A g \in LaterPosts : g > 1
          /\ SliceLen(firstVulnerabilitiesChunk) > 0 => firstVulnerabilitiesChunk.from = 1
          /\ \A g \in LaterPosts :
                posts[g].report.Vulnerabilities.from > firstVulnerabilitiesChunk.to
    /\ (pc = "done" /\ DeliveryStarted) =>
          /\ DOMAIN sinkLog = 1..ExpectedParts
          /\ \A p \in DOMAIN sinkLog : sinkLog[p] = 1
          /\ Len(err.errors)
                = Cardinality({p \in 1..ExpectedParts : SinkOutcome(in, p) # "ok"})
          /\ \A k \in ErrorKinds :
                CountIn(err.errors, k)
                    = Cardinality({p \in 1..ExpectedParts : SinkOutcome(in, p) = k})

\* the error of part 2 was collected before the error of part 1
C16_Witness ==
    /\ pc = "done"
    /\ Len(posts) >= 3
    /\ LaterPosts # {}
    /\ posts[1].err = "status500"
    /\ posts[2].err = "transport"
    /\ err.errors[1] = "transport"

\* the serialized size of the records of a chunk
ChunkSize(c) == JSONSize(Records(vulnerabilities, c))

\* the indices of the records that alone exceed the body size
Oversize ==
    {k \in DOMAIN vulnerabilities : JSONSize(SubSeq(vulnerabilities, k, k)) > maxBodySize}

\* C17: every chunk the partitioner has produced is within maxBodySize when
\* serialized, except a chunk of one record that alone is above it; each
\* record above the size that the partitioner has passed is in a chunk of
\* its own, none is left out.
C17_ChunkSizeBound ==
    chunksChan.next >= 1 =>
        /\ \A n \in DOMAIN ProducedChunks :
              LET c == ProducedChunks[n] IN
                 \/ ChunkSize(c) <= maxBodySize
                 \/ SliceLen(c) = 1 /\ c.from \in Oversize
        /\ \A k \in Oversize :
              k < chunksChan.next =>
                 \E n \in DOMAIN ProducedChunks : ProducedChunks[n] = Slice(k, k)

C17_Witness ==
    /\ chunksChan.closed
    /\ Len(ProducedChunks) >= 2
    /\ \E n \in DOMAIN ProducedChunks :
          SliceLen(ProducedChunks[n]) = 1 /\ ChunkSize(ProducedChunks[n]) > maxBodySize
    /\ \E n \in DOMAIN ProducedChunks :
          /\ SliceLen(ProducedChunks[n]) >= 2
          /\ ChunkSize(ProducedChunks[n]) <= maxBodySize
          /\ ChunkSize(ProducedChunks[n]) + SmallSize > maxBodySize

\* the converted full set, as the merge finds it
ConvertedFull == domainToArmo(in.cve, exceptions, FALSE).list

\* what a record holds besides its relevance flag and its identity
Frame(v) == [Name |-> v.Name, Size |-> v.Size, ExceptionApplied |-> v.ExceptionApplied]

\* C18: the merge leaves the list of the converted full set as it is but for
\* the relevance flags: right after the merge the records are those of the
\* converted full set, in the same order and as many, differing at most in
\* the flag, and this stays so for their content until SubmitCVE returns; a
\* name that only the relevant set has gives no record.
C18_MergeFrame ==
    /\ pc = "BuildReport" =>
          /\ Len(vulnerabilities) = Len(ConvertedFull)
          /\ \A k \in DOMAIN vulnerabilities :
                [vulnerabilities[k] EXCEPT !.IsRelevant = 0] = ConvertedFull[k]
    /\ Merged =>
          /\ Len(vulnerabilities) = Len(in.cve)
          /\ \A k \in DOMAIN vulnerabilities :
                /\ Frame(vulnerabilities[k]) = Frame(ConvertedFull[k])
                /\ vulnerabilities[k].Name = in.cve[k].Name

C18_Witness ==
    /\ pc = "BuildReport" /\ ~in.cvepNil
    /\ Len(vulnerabilities) >= 2
    /\ \E k \in DOMAIN vulnerabilities : Relevance(heap, vulnerabilities[k]) = "true"
    /\ \E k \in DOMAIN vulnerabilities : Relevance(heap, vulnerabilities[k]) = "false"
    /\ \E n \in RelevantNames : \A k \in DOMAIN vulnerabilities : vulnerabilities[k].Name # n
    /\ vulnerabilities[1].Name > vulnerabilities[2].Name

\* the producer has more of the list to cut
MoreToProduce == chunksChan.next >= 1 /\ chunksChan.next <= Len(vulnerabilities)

\* C19: the chunks produced and not yet taken are never more than the hint
\* of 10 given to the partitioner: with that many waiting the producer does
\* not go on; and the first chunk can be taken, and is then handed to a post
\* goroutine, while the producer still has chunks to produce.
C19_BoundedLookahead ==
    /\ Len(chunksChan.buf) <= ChunksBuffer
    /\ (Len(chunksChan.buf) = ChunksBuffer /\ MoreToProduce) => ~ENABLED Produce
    /\ (pc = "RecvFirst" /\ chunksChan.buf # <<>> /\ MoreToProduce) => ENABLED RecvFirst
    /\ (pc = "SendSummary" /\ MoreToProduce) => ENABLED SendSummary

C19_Witness ==
    /\ pc = "RecvFirst"
    /\ Len(chunksChan.buf) = ChunksBuffer
    /\ MoreToProduce
    /\ ~chunksChan.closed

\* the partitioner was started on an empty list
EmptyList == chunksChan.next >= 1 /\ totalVulnerabilities = 0

\* C20: with no record in the merged list the receive of the first chunk does
\* not block and yields no chunk; no routine for later chunks is started; one
\* report is sent, the part with the summary and without records; the error
\* channel is closed after that post has ended; and SubmitCVE returns nil
\* when the sink took the report and the error of the post otherwise.
C20_EmptyResult ==
    EmptyList =>
        /\ Len(vulnerabilities) = 0
        /\ pc = "RecvFirst" => ENABLED RecvFirst
        /\ pc \in {"SendSummary", "Dispatch", "Drain"} =>
              firstVulnerabilitiesChunk = NilSlice
        /\ routine \in {"none", "closer", "finished"}
        /\ Len(posts) <= 1
        /\ \A g \in DOMAIN posts :
              /\ posts[g].report.PartNum = FirstPartNum
              /\ posts[g].report.Summary # <<>>
              /\ SliceLen(posts[g].report.Vulnerabilities) = 0
        /\ errChan.closed => (posts # <<>> /\ posts[1].st = "done")
        /\ pc = "done" =>
              /\ Len(posts) = 1
              /\ errChan.closed
              /\ DOMAIN sinkLog = {FirstPartNum}
              /\ sinkLog[FirstPartNum] = 1
              /\ IF SinkOutcome(in, FirstPartNum) = "ok"
                 THEN ret = "nil" /\ err.errors = <<>>
                 ELSE ret = "multierror" /\ err.errors = <<SinkOutcome(in, FirstPartNum)>>

C20_Witness ==
    /\ EmptyList
    /\ pc = "done"
    /\ ret = "multierror"
    /\ Len(posts) = 1
    /\ posts[1].err = "transport"

====
